---- MODULE Spec2Model ----
(***************************************************************************)
(* Cache-aside read path, write-invalidation path, presence store and      *)
(* event notifier of src/routes/doctors.js, as a state machine.            *)
(*                                                                         *)
(* Every handler is an async function: it runs atomically from one await   *)
(* to the next.  One action of the model is "a remote call completes and   *)
(* the handler runs on to the next remote call or to its response".        *)
(***************************************************************************)
EXTENDS Integers, Sequences, FiniteSets, TLC

\* ------------------------------------------------------------- the data
\* Rows of the doctors, patients and appointments tables.  Both appointments
\* are doctor 1's; appointment 3 names a patient that has no row, so it never
\* joins; request id "4" names no row.  Doctor 1 is the one whose dashboard
\* session is followed.
DoctorRows == {1, 2}
PatientRows == {7}
ApptIds == {1, 3}
ApptDoctor(a) == 1
ApptPatient(a) == IF a = 3 THEN 9 ELSE 7
ApptDate(a) == a
ReqIds == {"1", "3", "4"}
Sessions == {1}
\* The slots requests run in: one for dashboard reads, one for accept/reject.
Readers == {"r"}
Writers == {"w"}
Procs == Readers \cup Writers

\* Step of the clock while appointment listings are cached, and while
\* presence values age.
CacheTick == 25
StatusTick == 600

\* null, as a string-valued local holds it; an absent reply or row is the empty
\* sequence, a present one the sequence of that one value.
Null == "null"
NoTTL == -1

\* ------------------------------------------------------------ the state
VARIABLES
  status,         \* appointments.status, by appointment id
  redis,          \* the key-value cache: the keys it holds -> [val, ttl]
  ioSet,          \* req.app.get('io') is the Socket.IO server
  req,            \* the handler running in each slot: its place and locals
  late,           \* history: owners whose cached listing was stored after a
                  \* delete by a writer that had updated after the listing was read
  hist,           \* history: per owner, the listings the store has held since the
                  \* last completed delete of the owner's key
  sinceSet,       \* history: per doctor, time since the last presence write
  lastSet,        \* history: per doctor, the value of the last presence write
  deg,            \* two sequential runs of one request sequence: a with the
                  \* cache available, b with the cache unavailable
  returned,       \* history: per owner, the listings the store has returned to
                  \* the dashboard query
  race            \* accept and reject requests racing on the store, with no
                  \* reader: their handlers, the store, and per appointment the
                  \* target of the UPDATE that executed last (history)

vars == <<status, redis, ioSet, req, late, hist, sinceSet, lastSet, deg, returned, race>>

\* ------------------------------------------------------------- helpers
\* parseInt(req.params.id)
ParseInt(s) == CASE s = "1" -> 1 [] s = "3" -> 3 [] s = "4" -> 4

\* `appointments:${doctor_id}` and `doctor:status:${doctorId}`
CacheKeyOf(d) == <<"appointments", d>>
StatusKeyOf(d) == <<"doctor:status", d>>

\* JSON.stringify / JSON.parse of a listing: the cache holds a string.
JSONstringify(rows) == <<"json", rows>>
JSONparse(str) == str[2]
\* JSON.parse throws a SyntaxError on a string that is not JSON text.
Parses(str) == str[1] = "json"

\* ORDER BY CASE WHEN status = 'pending' THEN 0 ELSE 1 END, appointment_date
Rank(st, a) == <<IF st[a] = "pending" THEN 0 ELSE 1, ApptDate(a)>>
Before(st, a, b) ==
  \/ Rank(st, a)[1] < Rank(st, b)[1]
  \/ Rank(st, a)[1] = Rank(st, b)[1] /\ Rank(st, a)[2] < Rank(st, b)[2]

RECURSIVE OrderBy(_, _)
OrderBy(st, S) ==
  IF S = {} THEN <<>>
  ELSE LET a == CHOOSE x \in S : \A y \in S \ {x} : Before(st, x, y)
       IN <<[id |-> a, status |-> st[a]]>> \o OrderBy(st, S \ {a})

\* SELECT a.*, p.name FROM appointments a JOIN patients p ... WHERE a.doctor_id = $1
DashboardQuery(st, d) ==
  OrderBy(st, {a \in ApptIds : ApptDoctor(a) = d /\ ApptPatient(a) \in PatientRows})

\* SELECT ... FROM appointments a JOIN patients p JOIN doctors d WHERE a.id = $1
JoinedRows(id) ==
  LET a == ParseInt(id) IN
  IF a \in ApptIds /\ ApptPatient(a) \in PatientRows /\ ApptDoctor(a) \in DoctorRows
  THEN <<[id |-> a, doctor_id |-> ApptDoctor(a), patient_id |-> ApptPatient(a)]>>
  ELSE <<>>

\* UPDATE appointments SET status = $1 WHERE id = $2
UpdateStatusIfPending(st, id, target) ==
  IF ParseInt(id) \in ApptIds /\ st[ParseInt(id)] = "pending"
  THEN [st EXCEPT ![ParseInt(id)] = target] ELSE st
UpdateStatus(st, id, target) ==
  IF ParseInt(id) \in ApptIds THEN [st EXCEPT ![ParseInt(id)] = target] ELSE st


\* ------------------------------------------------------ handler records
NoResp == [kind |-> "none"]
IdleReq ==
  [op |-> "none", pc |-> "idle", doctor |-> 0, id |-> Null, arg |-> Null,
   rows |-> <<>>, appointments |-> <<>>, stage |-> 0,
   doctorIds |-> <<>>, statuses |-> <<>>, eventData |-> <<>>,
   ovBy |-> {}, ov |-> FALSE, fx |-> <<>>, resp |-> NoResp]

Free(p) == req[p].pc \in {"idle", "done"}

\* The handler has answered: its locals are gone, its effects and answer stay
\* on record until the slot takes its next request.
Done(h, resp) ==
  [IdleReq EXCEPT !.op = h.op, !.pc = "done", !.doctor = h.doctor, !.id = h.id,
                  !.arg = h.arg, !.eventData = h.eventData, !.fx = h.fx, !.resp = resp]

Range(f) == {f[i] : i \in DOMAIN f}
AddFx(h, e) == [h EXCEPT !.fx = Append(@, e)]

\* res.render('doctors/dashboard', {error: null, appointments, fromCache})
Render(rows, fromCache) ==
  [kind |-> "render", error |-> Null, appointments |-> rows, fromCache |-> fromCache]
\* res.redirect('/doctors/dashboard')
Redirect == [kind |-> "redirect"]
\* res.status(500).send(...)
Error500 == [kind |-> "error500"]

\* ------------------------------------------------- the cache operations
Store(r, k, e) == [x \in DOMAIN r \cup {k} |-> IF x = k THEN e ELSE r[x]]
\* redisClient.get(key): the stored string, or null (the empty reply)
Get(r, k) == IF k \in DOMAIN r THEN <<r[k].val>> ELSE <<>>
\* redisClient.setEx(key, seconds, value)
SetEx(r, k, seconds, v) == Store(r, k, [val |-> v, ttl |-> seconds])
\* redisClient.set(key, value): the key keeps no expiration
Set(r, k, v) == Store(r, k, [val |-> v, ttl |-> NoTTL])
\* redisClient.del(key)
DelNothing(r, k) == r
Del(r, k) == [x \in DOMAIN r \ {k} |-> r[x]]

\* Expiration of the listing cache and of a presence value other than offline
ListingTTL == 45
PresenceTTL == 1800

\* ---------------------------------------------------- history variables
\* The listing the store holds for owner d now.
Current(d) == DashboardQuery(status, d)


\* What the environment decides when a remote call completes and the handler
\* runs on: ok, whether the call succeeded (it raised otherwise); cOpen and
\* pOpen, what redisClient.isOpen and redisPublisher.isOpen read.
Oracles == [ok : BOOLEAN, cOpen : BOOLEAN, pOpen : BOOLEAN]

\* ------------------------------------------------------- GET /dashboard
\* Lines 22-31: the cache is tried first if the client is open.
DashBegin(d, open) ==
  IF open THEN [IdleReq EXCEPT !.op = "dashboard", !.doctor = d, !.pc = "get"]
  ELSE [IdleReq EXCEPT !.op = "dashboard", !.doctor = d, !.pc = "query",
                       !.fx = <<"cacheDown">>]

\* Lines 32-43: a hit is parsed and rendered; a miss or an error goes to the store.
DashGetStepFailing(h, r, ok) ==
  LET cachedData == Get(r, CacheKeyOf(h.doctor)) IN
  IF ~ok THEN Done(AddFx(h, "cacheErr"), Error500)
  ELSE IF cachedData # <<>> /\ ~Parses(cachedData[1])
  THEN Done(AddFx(h, "parseErr"), Error500)
  ELSE IF cachedData # <<>>
  THEN Done(AddFx(h, "hit"), Render(JSONparse(cachedData[1]), TRUE))
  ELSE [AddFx(h, "miss") EXCEPT !.pc = "query"]
DashGetStep(h, r, ok) ==
  LET cachedData == Get(r, CacheKeyOf(h.doctor)) IN
  IF ~ok THEN [AddFx(h, "cacheErr") EXCEPT !.pc = "query"]
  ELSE IF cachedData # <<>> /\ ~Parses(cachedData[1])
  THEN [AddFx(h, "parseErr") EXCEPT !.pc = "query"]
  ELSE IF cachedData # <<>>
  THEN Done(AddFx(h, "hit"), Render(JSONparse(cachedData[1]), TRUE))
  ELSE [AddFx(h, "miss") EXCEPT !.pc = "query"]

\* Lines 46-63 and 70-80: a failed query is logged and the empty list rendered.
DashQueryStepCaching(h, st, ok, open) ==
  LET rows == DashboardQuery(st, h.doctor) IN
  IF ~ok /\ open THEN [AddFx(h, "dbErr") EXCEPT !.pc = "setEx", !.appointments = <<>>]
  ELSE IF ~ok THEN Done(AddFx(h, "dbErr"), Render(<<>>, FALSE))
  ELSE IF open THEN [AddFx(h, "query") EXCEPT !.pc = "setEx", !.appointments = rows]
  ELSE Done(AddFx(h, "query"), Render(rows, FALSE))
DashQueryStep(h, st, ok, open) ==
  LET rows == DashboardQuery(st, h.doctor) IN
  IF ~ok THEN Done(AddFx(h, "dbErr"), Render(<<>>, FALSE))
  ELSE IF open THEN [AddFx(h, "query") EXCEPT !.pc = "setEx", !.appointments = rows]
  ELSE Done(AddFx(h, "query"), Render(rows, FALSE))

\* Lines 64-69 and 75-80: a failed populate is logged.
DashSetExStep(h, r, ok) ==
  [h |-> Done(AddFx(h, IF ok THEN "setEx" ELSE "setExErr"), Render(h.appointments, FALSE)),
   redis |-> IF ok
             THEN SetEx(r, CacheKeyOf(h.doctor), ListingTTL, JSONstringify(h.appointments))
             ELSE r]

DashStart(p, d) ==
  /\ Free(p) /\ p \in Readers
  /\ \E open \in BOOLEAN : req' = [req EXCEPT ![p] = DashBegin(d, open)]
  /\ UNCHANGED <<status, redis, ioSet, late, hist, sinceSet, lastSet, deg, returned, race>>

DashGet(p) ==
  /\ req[p].op = "dashboard" /\ req[p].pc = "get"
  /\ \E ok \in BOOLEAN : req' = [req EXCEPT ![p] = DashGetStep(req[p], redis, ok)]
  /\ UNCHANGED <<status, redis, ioSet, late, hist, sinceSet, lastSet, deg, returned, race>>

DashQuery(p) ==
  /\ req[p].op = "dashboard" /\ req[p].pc = "query"
  /\ \E ok \in BOOLEAN, open \in BOOLEAN :
       /\ req' = [req EXCEPT ![p] = DashQueryStep(req[p], status, ok, open)]
       /\ returned' = IF ok THEN [returned EXCEPT ![req[p].doctor] =
                                    @ \cup {DashboardQuery(status, req[p].doctor)}]
                      ELSE returned
  /\ UNCHANGED <<status, redis, ioSet, late, hist, sinceSet, lastSet, deg, race>>

DashSetEx(p) ==
  LET h == req[p] IN
  /\ h.op = "dashboard" /\ h.pc = "setEx"
  /\ \E ok \in BOOLEAN :
       /\ redis' = DashSetExStep(h, redis, ok).redis
       /\ req' = [req EXCEPT ![p] = DashSetExStep(h, redis, ok).h]
       /\ late' = IF ~ok THEN late
                  ELSE IF h.ov THEN late \cup {h.doctor} ELSE late \ {h.doctor}
  /\ UNCHANGED <<status, ioSet, hist, sinceSet, lastSet, deg, returned, race>>

\* ------------------------- POST /appointment/:id/accept and .../reject
Target(op) == IF op = "accept" THEN "accepted" ELSE "rejected"

\* The best-effort steps that follow the UPDATE, in the order the handler
\* runs them: the cache delete, then the event.
StageOrderSwapped == <<"notify", "del">>
StageOrder == <<"del", "notify">>

\* The handler runs on from the start of stage k to its next remote call or to
\* its answer.  io: req.app.get('io') is set.
\* Lines 124-133: const eventData = {appointmentId, patientId, status, ...}
EventData(h) ==
  [appointmentId |-> ParseInt(h.id), patientId |-> h.rows[1].patient_id,
   status |-> Target(h.op)]

RECURSIVE Enter(_, _, _, _, _)
Enter(h, k, cOpen, pOpen, io) ==
  IF k > Len(StageOrder) THEN Done(h, Redirect)
  ELSE IF StageOrder[k] = "del"
  THEN \* appointment.doctor_id of undefined throws inside the try: swallowed
       IF cOpen /\ h.rows # <<>>
       THEN [h EXCEPT !.pc = "del", !.stage = k]
       ELSE Enter(h, k + 1, cOpen, pOpen, io)
  ELSE \* eventData reads appointment.patient_id: of undefined, it throws
       IF h.rows = <<>> THEN Done(h, Error500)
       ELSE LET e == [h EXCEPT !.eventData = <<EventData(h)>>] IN
            IF pOpen THEN [e EXCEPT !.pc = "publish", !.stage = k]
            ELSE IF io THEN Enter(AddFx(e, "emit"), k + 1, cOpen, pOpen, io)
            ELSE Done(e, Error500)

\* Lines 95-103: the joined SELECT is issued.
WBegin(op, id) == [IdleReq EXCEPT !.op = op, !.id = id, !.pc = "select"]

\* Lines 100-108: the SELECT returns, the UPDATE is issued.
WSelectStepSwallow(h, ok) ==
  IF ~ok THEN [AddFx(h, "dbErr") EXCEPT !.pc = "update"]
  ELSE [(IF JoinedRows(h.id) = <<>> THEN AddFx(h, "noRow") ELSE h)
          EXCEPT !.pc = "update", !.rows = JoinedRows(h.id)]
WSelectStep(h, ok) ==
  IF ~ok THEN Done(AddFx(h, "dbErr"), Error500)
  ELSE [(IF JoinedRows(h.id) = <<>> THEN AddFx(h, "noRow") ELSE h)
          EXCEPT !.pc = "update", !.rows = JoinedRows(h.id)]

\* Lines 105-150: the UPDATE returns and the handler runs on.
WUpdateStep(h, st, o, io) ==
  IF ~o.ok THEN [h |-> Done(AddFx(h, "dbErr"), Error500), status |-> st]
  ELSE [h |-> Enter(AddFx(h, "upd"), 1, o.cOpen, o.pOpen, io),
        status |-> UpdateStatus(st, h.id, Target(h.op))]

\* Lines 116-150: the delete returns (or raises, which is logged).
WDelStep(h, r, o, io) ==
  [h |-> Enter(AddFx(h, IF o.ok THEN "del" ELSE "delErr"), h.stage + 1, o.cOpen, o.pOpen, io),
   redis |-> IF o.ok THEN Del(r, CacheKeyOf(h.rows[1].doctor_id)) ELSE r]

\* Lines 137-152: the publish returns, or raises and io.emit is the fallback.
WPublishStep(h, o, io) ==
  IF o.ok THEN Enter(AddFx(h, "pub"), h.stage + 1, o.cOpen, o.pOpen, io)
  ELSE IF io
  THEN Enter(AddFx(AddFx(h, "pubErr"), "emit"), h.stage + 1, o.cOpen, o.pOpen, io)
  ELSE Done(AddFx(h, "pubErr"), Error500)

WStart(p, op, id) ==
  /\ Free(p) /\ p \in Writers
  /\ req' = [req EXCEPT ![p] = WBegin(op, id)]
  /\ UNCHANGED <<status, redis, ioSet, late, hist, sinceSet, lastSet, deg, returned, race>>

WSelect(p) ==
  /\ req[p].op \in {"accept", "reject"} /\ req[p].pc = "select"
  /\ \E ok \in BOOLEAN : req' = [req EXCEPT ![p] = WSelectStep(req[p], ok)]
  /\ UNCHANGED <<status, redis, ioSet, late, hist, sinceSet, lastSet, deg, returned, race>>

\* The readers whose store query ran before this UPDATE of one of their rows and
\* whose populate is still to come learn that writer p has overtaken them.
Overtake(p, id, q) ==
  IF /\ ParseInt(id) \in ApptIds
     /\ req[q].op = "dashboard" /\ req[q].pc = "setEx"
     /\ req[q].doctor = ApptDoctor(ParseInt(id))
  THEN [req[q] EXCEPT !.ovBy = @ \cup {p}]
  ELSE req[q]

WUpdate(p) ==
  LET h == req[p] IN
  /\ h.op \in {"accept", "reject"} /\ h.pc = "update"
  /\ \E o \in Oracles :
       /\ status' = WUpdateStep(h, status, o, ioSet).status
       /\ hist' = [d \in DoctorRows |-> hist[d] \cup {DashboardQuery(status', d)}]
       /\ req' = [q \in Procs |->
                    IF q = p THEN WUpdateStep(h, status, o, ioSet).h
                    ELSE IF o.ok THEN Overtake(p, h.id, q) ELSE req[q]]
  /\ UNCHANGED <<redis, ioSet, late, sinceSet, lastSet, deg, returned, race>>

\* A reader that writer p overtook, and whose populate is still to come, now
\* holds a listing read before an UPDATE whose delete is complete.
Outrun(p, d, q) ==
  IF /\ req[q].op = "dashboard" /\ req[q].pc = "setEx"
     /\ req[q].doctor = d /\ p \in req[q].ovBy
  THEN [req[q] EXCEPT !.ov = TRUE]
  ELSE req[q]

WDel(p) ==
  LET h == req[p]
      d == h.rows[1].doctor_id IN
  /\ h.op \in {"accept", "reject"} /\ h.pc = "del"
  /\ \E o \in Oracles :
       /\ redis' = WDelStep(h, redis, o, ioSet).redis
       /\ late' = IF o.ok THEN late \ {d} ELSE late
       /\ hist' = IF o.ok THEN [hist EXCEPT ![d] = {Current(d)}] ELSE hist
       /\ req' = [q \in Procs |->
                    IF q = p THEN WDelStep(h, redis, o, ioSet).h
                    ELSE IF o.ok THEN Outrun(p, d, q) ELSE req[q]]
  /\ UNCHANGED <<status, ioSet, sinceSet, lastSet, deg, returned, race>>

WPublish(p) ==
  /\ req[p].op \in {"accept", "reject"} /\ req[p].pc = "publish"
  /\ \E o \in Oracles : req' = [req EXCEPT ![p] = WPublishStep(req[p], o, ioSet)]
  /\ UNCHANGED <<status, redis, ioSet, late, hist, sinceSet, lastSet, deg, returned, race>>

\* ----------------------------------------------------------- the clock
Expire(r, dt) ==
  LET live == {k \in DOMAIN r : r[k].ttl = NoTTL \/ r[k].ttl - dt > 0}
  IN [k \in live |-> IF r[k].ttl = NoTTL THEN r[k] ELSE [r[k] EXCEPT !.ttl = @ - dt]]

Tick(dt) ==
  /\ redis' = Expire(redis, dt)
  /\ late' = {d \in late : CacheKeyOf(d) \in DOMAIN redis'}
  /\ sinceSet' = [d \in DoctorRows |->
                    IF lastSet[d] = Null THEN 0
                    ELSE IF sinceSet[d] + dt >= PresenceTTL THEN PresenceTTL
                    ELSE sinceSet[d] + dt]
  /\ UNCHANGED <<status, ioSet, req, hist, lastSet, deg, returned, race>>

CacheClock == Tick(CacheTick)

\* ------------------------------------- sequential runs, cache up and down
\* One system on its own: the store, the cache and the one handler it runs.
DegSystem == [h |-> IdleReq, status |-> [a \in ApptIds |-> "pending"], redis |-> <<>>]
DegInit == [a |-> DegSystem, b |-> DegSystem]

\* The handler of system S takes its next step under oracle o.
StepOf(S, o, io) ==
  CASE S.h.pc = "get" -> [S EXCEPT !.h = DashGetStep(S.h, S.redis, o.ok)]
    [] S.h.pc = "query" -> [S EXCEPT !.h = DashQueryStep(S.h, S.status, o.ok, o.cOpen)]
    [] S.h.pc = "setEx" -> [S EXCEPT !.h = DashSetExStep(S.h, S.redis, o.ok).h,
                                     !.redis = DashSetExStep(S.h, S.redis, o.ok).redis]
    [] S.h.pc = "select" -> [S EXCEPT !.h = WSelectStep(S.h, o.ok)]
    [] S.h.pc = "update" -> [S EXCEPT !.h = WUpdateStep(S.h, S.status, o, io).h,
                                      !.status = WUpdateStep(S.h, S.status, o, io).status]
    [] S.h.pc = "del" -> [S EXCEPT !.h = WDelStep(S.h, S.redis, o, io).h,
                                   !.redis = WDelStep(S.h, S.redis, o, io).redis]
    [] S.h.pc = "publish" -> [S EXCEPT !.h = WPublishStep(S.h, o, io)]

\* What the environment does to one request: whether its first and second
\* store calls and its publish succeed, and whether the publisher is open.
\* cacheUp: whether the cache client is open; an open cache answers its calls.
Fates == [db1 : BOOLEAN, db2 : BOOLEAN, pub : BOOLEAN, pOpen : BOOLEAN]
OracleAt(f, pc, cacheUp) ==
  [ok |-> CASE pc \in {"select", "query"} -> f.db1
            [] pc = "update" -> f.db2
            [] pc \in {"get", "setEx", "del"} -> TRUE
            [] pc = "publish" -> f.pub,
   cOpen |-> cacheUp, pOpen |-> f.pOpen]

\* The handler of S runs to its answer with no other handler in between.
RECURSIVE RunToEnd(_, _, _, _)
RunToEnd(S, f, cacheUp, io) ==
  IF S.h.pc = "done" THEN S
  ELSE RunToEnd(StepOf(S, OracleAt(f, S.h.pc, cacheUp), io), f, cacheUp, io)

\* Both systems serve the same request under the same fate.
DegServe(a0, b0, f) ==
  deg' = [a |-> RunToEnd([deg.a EXCEPT !.h = a0], f, TRUE, ioSet),
          b |-> RunToEnd([deg.b EXCEPT !.h = b0], f, FALSE, ioSet)]

DegGetListing(d) ==
  /\ \E f \in Fates : DegServe(DashBegin(d, TRUE), DashBegin(d, FALSE), f)
  /\ UNCHANGED <<status, redis, ioSet, req, late, hist, sinceSet, lastSet, returned, race>>

DegWrite(op, id) ==
  /\ \E f \in Fates : DegServe(WBegin(op, id), WBegin(op, id), f)
  /\ UNCHANGED <<status, redis, ioSet, req, late, hist, sinceSet, lastSet, returned, race>>

DegClock ==
  /\ deg' = [deg EXCEPT !.a.redis = Expire(@, CacheTick), !.b.redis = Expire(@, CacheTick)]
  /\ UNCHANGED <<status, redis, ioSet, req, late, hist, sinceSet, lastSet, returned, race>>

NextDeg ==
  \/ \E d \in Sessions : DegGetListing(d)
  \/ \E op \in {"accept", "reject"}, id \in ReqIds : DegWrite(op, id)
  \/ DegClock

\* ------------------------------------- accept and reject racing each other
Racers == {"w1", "w2"}
RaceInit ==
  [h |-> [i \in Racers |-> IdleReq], status |-> [a \in ApptIds |-> "pending"],
   redis |-> <<>>, last |-> [a \in ApptIds |-> Null]]

RaceStart(i, op, id) ==
  /\ race.h[i].pc \in {"idle", "done"}
  /\ race' = [race EXCEPT !.h[i] = WBegin(op, id)]
  /\ UNCHANGED <<status, redis, ioSet, req, late, hist, sinceSet, lastSet, deg, returned>>

\* The handler of racer i, at place pc, takes its step on the shared store and
\* cache; a successful UPDATE of an existing appointment is noted as the last.
RaceAt(i, pc) ==
  LET h == race.h[i]
      S == [h |-> h, status |-> race.status, redis |-> race.redis] IN
  /\ h.pc = pc
  /\ \E o \in Oracles :
       LET T == StepOf(S, o, ioSet) IN
       race' = [h |-> [race.h EXCEPT ![i] = T.h], status |-> T.status, redis |-> T.redis,
                last |-> IF pc = "update" /\ o.ok /\ ParseInt(h.id) \in ApptIds
                         THEN [race.last EXCEPT ![ParseInt(h.id)] = Target(h.op)]
                         ELSE race.last]
  /\ UNCHANGED <<status, redis, ioSet, req, late, hist, sinceSet, lastSet, deg, returned>>

RaceSelect(i) == RaceAt(i, "select")
RaceUpdate(i) == RaceAt(i, "update")
RaceDel(i) == RaceAt(i, "del")
RacePublish(i) == RaceAt(i, "publish")

NextRace ==
  \/ \E i \in Racers, op \in {"accept", "reject"}, id \in ReqIds : RaceStart(i, op, id)
  \/ \E i \in Racers : RaceSelect(i) \/ RaceUpdate(i) \/ RaceDel(i) \/ RacePublish(i)

\* ------------------------------------------------- the appointment paths
Init ==
  /\ status = [a \in ApptIds |-> "pending"]
  /\ redis = <<>>
  /\ ioSet \in BOOLEAN
  /\ req = [p \in Procs |-> IdleReq]
  /\ late = {}
  /\ hist = [d \in DoctorRows |-> {DashboardQuery(status, d)}]
  /\ sinceSet = [d \in DoctorRows |-> 0]
  /\ lastSet = [d \in DoctorRows |-> Null]
  /\ deg = DegInit
  /\ returned = [d \in DoctorRows |-> {}]
  /\ race = RaceInit

Next ==
  \/ \E p \in Procs, d \in Sessions : DashStart(p, d)
  \/ \E p \in Procs : DashGet(p) \/ DashQuery(p) \/ DashSetEx(p)
  \/ \E p \in Procs, op \in {"accept", "reject"}, id \in ReqIds : WStart(p, op, id)
  \/ \E p \in Procs : WSelect(p) \/ WUpdate(p) \/ WDel(p) \/ WPublish(p)
  \/ CacheClock

Spec == Init /\ [][Next]_vars

\* The same paths, started with a string under the owner's key that is not
\* JSON text: the cache server is shared, and what it holds under a key is
\* not only what this handler stored there.
Foreign == <<"text", "Hello Redis">>
InitForeign ==
  /\ status = [a \in ApptIds |-> "pending"]
  /\ redis = Set(<<>>, CacheKeyOf(1), Foreign)
  /\ ioSet \in BOOLEAN
  /\ req = [p \in Procs |-> IdleReq]
  /\ late = {}
  /\ hist = [d \in DoctorRows |-> {DashboardQuery(status, d)}]
  /\ sinceSet = [d \in DoctorRows |-> 0]
  /\ lastSet = [d \in DoctorRows |-> Null]
  /\ deg = DegInit
  /\ returned = [d \in DoctorRows |-> {}]
  /\ race = RaceInit

SpecForeign == InitForeign /\ [][Next]_vars

\* ------------------------------------------------ POST /status/update
validStatusesLoose == {"available", "busy", "offline", "flying"}
validStatuses == {"available", "busy", "offline"}
\* What a request body may carry as its status.
Bodies == {"available", "busy", "offline", "flying"}

\* res.status(code).json(body) and res.json(body)
Json(code, body) == [kind |-> "json", code |-> code, body |-> body]

\* if (status === 'offline') set(...) else setEx(..., 1800, ...)
StatusExpiryNever(s) == NoTTL
StatusExpiryAlways(s) == PresenceTTL
StatusExpiry(s) == IF s = "offline" THEN NoTTL ELSE PresenceTTL

StoreStatus(r, k, s) ==
  IF StatusExpiry(s) = NoTTL THEN Set(r, k, s) ELSE SetEx(r, k, StatusExpiry(s), s)

\* Lines 230-243 and 270-272: the status is validated, then the cache client is
\* looked at; with no open client the answer is 503 and nothing else is done.
SetBeginAnyway(d, s, cOpen) ==
  LET h == [IdleReq EXCEPT !.op = "setStatus", !.doctor = d, !.arg = s] IN
  IF s \notin validStatuses THEN Done(h, Json(400, [error |-> "Invalid status"]))
  ELSE IF cOpen THEN [h EXCEPT !.pc = "set"]
  ELSE [AddFx(h, "cacheDown") EXCEPT !.pc = "set"]
SetBegin(d, s, cOpen) ==
  LET h == [IdleReq EXCEPT !.op = "setStatus", !.doctor = d, !.arg = s] IN
  IF s \notin validStatuses THEN Done(h, Json(400, [error |-> "Invalid status"]))
  ELSE IF cOpen THEN [h EXCEPT !.pc = "set"]
  ELSE Done(AddFx(h, "cacheDown"), Json(503, [error |-> "Redis unavailable"]))

SetStart(p, d, s) ==
  /\ Free(p) /\ p \in Writers
  /\ \E cOpen \in BOOLEAN : req' = [req EXCEPT ![p] = SetBegin(d, s, cOpen)]
  /\ UNCHANGED <<status, redis, ioSet, late, hist, sinceSet, lastSet, deg, returned, race>>

SetStore(p) ==
  LET h == req[p] IN
  /\ h.op = "setStatus" /\ h.pc = "set"
  /\ \E ok \in BOOLEAN, pOpen \in BOOLEAN :
       IF ok
       THEN /\ redis' = StoreStatus(redis, StatusKeyOf(h.doctor), h.arg)
            /\ lastSet' = [lastSet EXCEPT ![h.doctor] = h.arg]
            /\ sinceSet' = [sinceSet EXCEPT ![h.doctor] = 0]
            /\ req' = [req EXCEPT ![p] =
                         IF pOpen THEN [AddFx(h, "set") EXCEPT !.pc = "publish"]
                         ELSE Done(AddFx(h, "set"),
                                   Json(200, [success |-> TRUE, status |-> h.arg]))]
       ELSE /\ req' = [req EXCEPT ![p] =
                         Done(AddFx(h, "setErr"), Json(500, [error |-> "Failed to update status"]))]
            /\ UNCHANGED <<redis, lastSet, sinceSet>>
  /\ UNCHANGED <<status, ioSet, late, hist, deg, returned, race>>

SetPublish(p) ==
  LET h == req[p] IN
  /\ h.op = "setStatus" /\ h.pc = "publish"
  /\ \E ok \in BOOLEAN :
       req' = [req EXCEPT ![p] =
                 IF ok THEN Done(AddFx(h, "pub"), Json(200, [success |-> TRUE, status |-> h.arg]))
                 ELSE Done(AddFx(h, "pubErr"), Json(500, [error |-> "Failed to update status"]))]
  /\ UNCHANGED <<status, redis, ioSet, late, hist, sinceSet, lastSet, deg, returned, race>>

\* --------------------------------------------------------- GET /status
\* await redisClient.get(statusKey) || 'offline'
OrOfflineRaw(reply) == IF reply = <<>> THEN Null ELSE reply[1]
OrOffline(reply) == IF reply = <<>> THEN "offline" ELSE reply[1]

GetStart(p, d) ==
  /\ Free(p) /\ p \in Readers
  /\ \E cOpen \in BOOLEAN :
       LET h == [IdleReq EXCEPT !.op = "getStatus", !.doctor = d] IN
       req' = [req EXCEPT ![p] =
                 IF cOpen THEN [h EXCEPT !.pc = "get"]
                 ELSE Done(AddFx(h, "cacheDown"), Json(200, [status |-> "offline"]))]
  /\ UNCHANGED <<status, redis, ioSet, late, hist, sinceSet, lastSet, deg, returned, race>>

GetReply(p) ==
  LET h == req[p] IN
  /\ h.op = "getStatus" /\ h.pc = "get"
  /\ \E ok \in BOOLEAN :
       req' = [req EXCEPT ![p] =
                 IF ok THEN Done(AddFx(h, "got"),
                                 Json(200, [status |-> OrOffline(Get(redis, StatusKeyOf(h.doctor)))]))
                 ELSE Done(AddFx(h, "getErr"), Json(200, [status |-> "offline"]))]
  /\ UNCHANGED <<status, redis, ioSet, late, hist, sinceSet, lastSet, deg, returned, race>>

\* ----------------------------------------------------- GET /status/all
\* SELECT id FROM doctors: the rows come in an order the query does not fix.
DoctorOrders == {ids \in [1..Cardinality(DoctorRows) -> DoctorRows] :
                   \A i, j \in DOMAIN ids : ids[i] = ids[j] => i = j}

\* doctorIds.forEach(id => statuses[id] = 'offline')
AllOffline(ids) == [id \in Range(ids) |-> "offline"]

\* Lines 302-318: the ids are read; with the client open the keys are read one
\* by one, otherwise every doctor is reported offline.
AllDoctorsStep(h, ok, cOpen, ids) ==
  IF ~ok THEN Done(AddFx(h, "dbErr"), Json(500, [error |-> "Failed to get statuses"]))
  ELSE IF ~cOpen THEN Done(AddFx(h, "cacheDown"), Json(200, AllOffline(ids)))
  ELSE IF ids = <<>> THEN Done(h, Json(200, <<>>))
  ELSE [h EXCEPT !.pc = "getEach", !.doctorIds = ids]

\* Lines 308-322: one get of the loop returns; if it raises, the outer catch
\* answers 500.
AllGetStep(h, r, ok) ==
  LET id == Head(h.doctorIds)
      statuses == Store(h.statuses, id, OrOffline(Get(r, StatusKeyOf(id)))) IN
  IF ~ok THEN Done(AddFx(h, "getErr"), Json(500, [error |-> "Failed to get statuses"]))
  ELSE IF Tail(h.doctorIds) = <<>> THEN Done(AddFx(h, "got"), Json(200, statuses))
  ELSE [AddFx(h, "got") EXCEPT !.doctorIds = Tail(@), !.statuses = statuses]

AllStart(p) ==
  /\ Free(p) /\ p \in Readers
  /\ req' = [req EXCEPT ![p] = [IdleReq EXCEPT !.op = "allStatus", !.pc = "doctors"]]
  /\ UNCHANGED <<status, redis, ioSet, late, hist, sinceSet, lastSet, deg, returned, race>>

AllDoctors(p) ==
  /\ req[p].op = "allStatus" /\ req[p].pc = "doctors"
  /\ \E ok \in BOOLEAN, cOpen \in BOOLEAN, ids \in DoctorOrders :
       req' = [req EXCEPT ![p] = AllDoctorsStep(req[p], ok, cOpen, ids)]
  /\ UNCHANGED <<status, redis, ioSet, late, hist, sinceSet, lastSet, deg, returned, race>>

AllGet(p) ==
  /\ req[p].op = "allStatus" /\ req[p].pc = "getEach"
  /\ \E ok \in BOOLEAN : req' = [req EXCEPT ![p] = AllGetStep(req[p], redis, ok)]
  /\ UNCHANGED <<status, redis, ioSet, late, hist, sinceSet, lastSet, deg, returned, race>>

StatusClock == Tick(StatusTick)

\* ---------------------------------------------------- the presence paths
\* The appointment paths have left the listing of doctor 1 cached, or not.
InitStatus ==
  /\ status = [a \in ApptIds |-> "pending"]
  /\ redis \in {<<>>, SetEx(<<>>, CacheKeyOf(1), ListingTTL,
                            JSONstringify(DashboardQuery(status, 1)))}
  /\ ioSet \in BOOLEAN
  /\ req = [p \in Procs |-> IdleReq]
  /\ late = {}
  /\ hist = [d \in DoctorRows |-> {DashboardQuery(status, d)}]
  /\ sinceSet = [d \in DoctorRows |-> 0]
  /\ lastSet = [d \in DoctorRows |-> Null]
  /\ deg = DegInit
  /\ returned = [d \in DoctorRows |-> {}]
  /\ race = RaceInit

NextStatus ==
  \/ \E p \in Procs, d \in DoctorRows, s \in Bodies : SetStart(p, d, s)
  \/ \E p \in Procs : SetStore(p) \/ SetPublish(p)
  \/ \E p \in Procs, d \in DoctorRows : GetStart(p, d)
  \/ \E p \in Procs : GetReply(p)
  \/ \E p \in Procs : AllStart(p) \/ AllDoctors(p) \/ AllGet(p)
  \/ StatusClock

SpecStatus == InitStatus /\ [][NextStatus]_vars

SpecDeg == Init /\ [][NextDeg]_vars

SpecRace == Init /\ [][NextRace]_vars

\* ------------------------------------------------------------ the claims
Events == {"pub", "emit"}
Answers(p) == req[p].pc # "done" /\ req'[p].pc = "done"

\* C1: once a writer's delete has completed, the cache never holds a listing
\* that was read from the store before that writer's UPDATE: no populate whose
\* query ran before the UPDATE lands after the delete.
C1_PopulateNeverOverwritesDelete == late = {}

\* C2: a listing served by GetListing is one the store has held at some instant
\* since the last completed delete of the owner's key, and a cached listing is
\* served only while its 45-unit expiration has not run out.
C2_FreshnessBound ==
  [][\A p \in Readers :
       (Answers(p) /\ req'[p].resp.fromCache) =>
         /\ req'[p].resp.appointments \in hist[req[p].doctor]
         /\ CacheKeyOf(req[p].doctor) \in DOMAIN redis
         /\ redis[CacheKeyOf(req[p].doctor)].ttl \in 1..ListingTTL]_vars

\* C4 as stated: the two runs agree on the store, on success or failure and
\* on the events; with the cache unavailable every read is answered from the
\* store with the store's current listing, and the listing of a read is the
\* same in both runs.
Outcome(h) == IF h.resp.kind = "render" THEN <<"render", h.resp.error>> ELSE <<h.resp.kind>>
IsEvent(e) == e \in Events
EventsOf(h) == <<Target(h.op), SelectSeq(h.fx, IsEvent)>>
DegAgree ==
  /\ deg.a.status = deg.b.status
  /\ Outcome(deg.a.h) = Outcome(deg.b.h)
  /\ EventsOf(deg.a.h) = EventsOf(deg.b.h)
  /\ deg.b.redis = <<>>
DegRead == deg.b.h.op = "dashboard" /\ deg.b.h.pc = "done"
C5_InvalidationBeforeEvent ==
  \A p \in Writers : \A i, j \in DOMAIN req[p].fx :
    (req[p].fx[i] = "del" /\ req[p].fx[j] \in Events) => i < j

C5_Witness ==
  \E p \in Writers :
    /\ req[p].pc = "done" /\ req[p].resp = Redirect
    /\ "del" \in Range(req[p].fx) /\ "pub" \in Range(req[p].fx)

\* C6: once the UPDATE of a resolved appointment has succeeded, no failure of
\* the cache delete or of the event delivery changes the answer: the caller
\* gets the redirect, never a server error, and the new status stays.
C6_SideEffectFailureNotSurfaced ==
  [][\A p \in Writers :
       (Answers(p) /\ "upd" \in Range(req'[p].fx) /\ "noRow" \notin Range(req'[p].fx)) =>
         /\ req'[p].resp = Redirect
         /\ status'[ParseInt(req[p].id)] = Target(req[p].op)]_vars

\* C7: if the joined lookup returns no row, the operation fails with a
\* Not-Found outcome, no appointment's status is modified and no event is
\* delivered.
C7_NotFoundNoMutation ==
  [][\A p \in Writers :
       (req'[p] # req[p] /\ "noRow" \in Range(req'[p].fx)
                         /\ "dbErr" \notin Range(req'[p].fx)) =>
         /\ status' = status
         /\ Range(req'[p].fx) \cap Events = {}
         /\ req'[p].pc = "done" => req'[p].resp.kind = "notFound"]_vars

\* C3: every publish attempt (an accept or reject that reaches the event, a
\* SetStatus that succeeds) is delivered by exactly one of broadcast publish
\* and direct emit: never both, and never neither unless the broadcast channel
\* and the direct registry are both unavailable.
Delivered(h) == {i \in DOMAIN h.fx : h.fx[i] \in Events}
Attempted(h) ==
  \/ h.op \in {"accept", "reject"} /\ "upd" \in Range(h.fx) /\ "noRow" \notin Range(h.fx)
  \/ h.op = "setStatus" /\ h.resp.kind = "json" /\ h.resp.code = 200
C3_FallbackExclusivity ==
  \A p \in Procs :
    (req[p].pc = "done" /\ Attempted(req[p])) =>
      \/ Cardinality(Delivered(req[p])) = 1
      \/ Delivered(req[p]) = {} /\ ~ioSet

\* C8: once an available or busy status has been stored and 1800 units have
\* passed with no further SetStatus for that doctor, GetStatus answers offline.
Lapsed(d) == lastSet[d] \in {"available", "busy"} /\ sinceSet[d] >= 1800
C8_PresenceTTL ==
  [][\A p \in Readers :
       (Answers(p) /\ req[p].op = "getStatus" /\ Lapsed(req[p].doctor)) =>
         req'[p].resp = Json(200, [status |-> "offline"])]_vars

C8_Witness ==
  \E p \in Readers, q \in Writers :
    /\ req[p].op = "getStatus" /\ req[p].pc = "done" /\ req[p].fx = <<"got">>
    /\ req[p].resp = Json(200, [status |-> "offline"])
    /\ Lapsed(req[p].doctor)
    /\ req[q].op = "setStatus" /\ req[q].pc = "done" /\ req[q].doctor = req[p].doctor
    /\ req[q].resp = Json(200, [success |-> TRUE, status |-> "busy"])

\* C9: after SetStatus(offline) and until the next SetStatus for that doctor,
\* the stored value is offline with no expiration: the key is never removed
\* by expiry, however much time passes.
C9_OfflinePersistence ==
  \A d \in DoctorRows :
    lastSet[d] = "offline" =>
      /\ StatusKeyOf(d) \in DOMAIN redis
      /\ redis[StatusKeyOf(d)] = [val |-> "offline", ttl |-> NoTTL]

C9_Witness ==
  \E d \in DoctorRows, p \in Readers :
    /\ lastSet[d] = "offline" /\ sinceSet[d] >= 1800
    /\ StatusKeyOf(d) \in DOMAIN redis
    /\ req[p].op = "getStatus" /\ req[p].pc = "done" /\ req[p].doctor = d
    /\ req[p].fx = <<"got">> /\ req[p].resp = Json(200, [status |-> "offline"])

\* C10: SetStatus with a status other than available, busy or offline is
\* answered Invalid-Input at once and changes nothing: not the presence
\* store, not the appointment cache, not the durable store, and no event.
C10_InvalidStatusRejected ==
  [][\A p \in Procs :
       (req'[p] # req[p] /\ req'[p].op = "setStatus"
          /\ req'[p].arg \notin {"available", "busy", "offline"}) =>
         /\ req'[p].pc = "done" /\ req'[p].resp.code = 400
         /\ req'[p].fx = <<>>
         /\ UNCHANGED <<redis, status, lastSet>>]_vars

C10_Witness ==
  \E p \in Procs :
    /\ req[p].op = "setStatus" /\ req[p].arg = "flying" /\ req[p].pc = "done"
    /\ req[p].resp.code = 400
    /\ CacheKeyOf(1) \in DOMAIN redis
    /\ \E d \in DoctorRows : StatusKeyOf(d) \in DOMAIN redis

\* C11: SetStatus with a valid status while the cache client is absent or not
\* open is answered Service-Unavailable in that same step; nothing is stored
\* and no event is delivered, also when the direct registry is available.
C11_UnavailableRejected ==
  [][\A p \in Procs :
       (req'[p] # req[p] /\ req'[p].op = "setStatus"
          /\ "cacheDown" \in Range(req'[p].fx)) =>
         /\ req'[p].pc = "done" /\ req'[p].resp = Json(503, [error |-> "Redis unavailable"])
         /\ req'[p].fx = <<"cacheDown">>
         /\ UNCHANGED <<redis, status, lastSet, sinceSet>>]_vars

C11_Witness ==
  \E p \in Procs :
    /\ req[p].op = "setStatus" /\ req[p].arg = "available" /\ req[p].pc = "done"
    /\ req[p].fx = <<"cacheDown">> /\ req[p].resp.code = 503
    /\ ioSet
    /\ StatusKeyOf(req[p].doctor) \in DOMAIN redis
    /\ redis[StatusKeyOf(req[p].doctor)].val = "busy"

\* C12: in SetStatus, once the presence value has been stored, a failure of
\* the publish does not fail the operation: the answer is the success result
\* carrying the new status.
C12_PublishFailureNotSurfaced ==
  [][\A p \in Procs :
       (Answers(p) /\ req'[p].op = "setStatus" /\ "set" \in Range(req'[p].fx)) =>
         req'[p].resp = Json(200, [success |-> TRUE, status |-> req[p].arg])]_vars

\* C13: GetStatus always answers with a status: the last value stored for the
\* doctor while it is present and unexpired; offline when no value was stored,
\* when it has expired, when the cache client is not open and when the get
\* raises.
StoredNow(d) ==
  IF lastSet[d] = Null THEN "offline"
  ELSE IF lastSet[d] # "offline" /\ sinceSet[d] >= PresenceTTL THEN "offline"
  ELSE lastSet[d]
C13_GetStatusNeverFails ==
  [][\A p \in Readers :
       (Answers(p) /\ req[p].op = "getStatus") =>
         /\ req'[p].resp.kind = "json" /\ req'[p].resp.code = 200
         /\ req'[p].resp.body.status \in {"available", "busy", "offline"}
         /\ req'[p].resp.body.status =
              IF "got" \in Range(req'[p].fx) THEN StoredNow(req[p].doctor) ELSE "offline"]_vars

C13_Witness ==
  \E p \in Readers, q \in Writers :
    /\ req[p].op = "getStatus" /\ req[p].pc = "done" /\ req[p].fx = <<"getErr">>
    /\ req[p].resp = Json(200, [status |-> "offline"])
    /\ StoredNow(req[p].doctor) = "busy"
    /\ req[q].op = "setStatus" /\ req[q].pc = "done" /\ req[q].doctor = req[p].doctor
    /\ req[q].arg = "busy"

\* C14: GetAllStatuses answers with a map whose keys are exactly the doctor
\* ids of the store, each with the doctor's stored presence value, or offline
\* when none is stored or it has expired; when the cache client is not open,
\* or a get of the fan-out raises, every doctor is reported offline and the
\* call does not fail.
C14_AllStatuses ==
  [][\A p \in Readers :
       (req[p].op = "allStatus" /\ req'[p] # req[p] /\ "dbErr" \notin Range(req'[p].fx)) =>
         /\ (req[p].pc = "getEach" /\ req'[p].pc = "getEach") =>
              req'[p].statuses[Head(req[p].doctorIds)] = StoredNow(Head(req[p].doctorIds))
         /\ Answers(p) =>
              /\ req'[p].resp.kind = "json" /\ req'[p].resp.code = 200
              /\ DOMAIN req'[p].resp.body = DoctorRows
              /\ \A d \in DoctorRows :
                    req'[p].resp.body[d] =
                      IF Range(req'[p].fx) \cap {"cacheDown", "getErr"} # {} THEN "offline"
                      ELSE IF d \in DOMAIN req[p].statuses THEN req[p].statuses[d]
                      ELSE StoredNow(d)]_vars

\* C15: in GetListing no cache failure fails the request: with the cache
\* client not open, the get raising, the cached string not parsing or the
\* populate raising, the handler goes on to the store as on a miss and answers
\* with the listing the store returned, source = store, and no error.
C15_CacheFailureNotSurfaced ==
  [][\A p \in Readers :
       (req[p].op = "dashboard" /\ req'[p] # req[p]) =>
         /\ (req[p].pc = "get" /\ "hit" \notin Range(req'[p].fx)) => req'[p].pc = "query"
         /\ (req[p].pc = "query" /\ req'[p].pc = "setEx") =>
              req'[p].appointments = DashboardQuery(status, req[p].doctor)
         /\ (Answers(p) /\ Range(req'[p].fx) \cap {"hit", "dbErr"} = {}) =>
              req'[p].resp =
                [kind |-> "render", error |-> Null, fromCache |-> FALSE,
                 appointments |-> IF req[p].pc = "setEx" THEN req[p].appointments
                                  ELSE DashboardQuery(status, req[p].doctor)]]_vars

C15_Witness ==
  \E p \in Readers :
    /\ req[p].op = "dashboard" /\ req[p].pc = "done"
    /\ req[p].fx = <<"parseErr", "query", "setExErr">>
    /\ req[p].resp = Render(<<[id |-> 1, status |-> "accepted"]>>, FALSE)
    /\ Get(redis, CacheKeyOf(req[p].doctor)) = <<Foreign>>

\* C16: in GetListing on a miss, if the store query fails, the answer is the
\* empty listing together with a non-null error indication.
C16_StoreFailureReported ==
  [][\A p \in Readers :
       (Answers(p) /\ req[p].op = "dashboard" /\ "dbErr" \in Range(req'[p].fx)) =>
         /\ req'[p].resp.kind = "render"
         /\ req'[p].resp.appointments = <<>>
         /\ req'[p].resp.error # Null]_vars

\* C20: a cached listing is always one the store returned to a dashboard
\* query of that owner; a dashboard request whose store query fails leaves
\* the cache as it was.
C20_CacheHoldsReturnedListings ==
  /\ [](\A d \in DoctorRows :
          CacheKeyOf(d) \in DOMAIN redis =>
            /\ Parses(redis[CacheKeyOf(d)].val)
            /\ JSONparse(redis[CacheKeyOf(d)].val) \in returned[d])
  /\ [][\A p \in Readers :
         (req[p].op = "dashboard" /\ req'[p] # req[p] /\ "dbErr" \in Range(req'[p].fx)) =>
           /\ redis' = redis
           /\ req'[p].pc = "done"]_vars

C20_Witness ==
  \E p \in Readers :
    /\ req[p].op = "dashboard" /\ req[p].pc = "done"
    /\ req[p].fx = <<"cacheErr", "dbErr">>
    /\ CacheKeyOf(req[p].doctor) \in DOMAIN redis
    /\ JSONparse(redis[CacheKeyOf(req[p].doctor)].val) = <<[id |-> 1, status |-> "rejected"]>>
    /\ status[1] = "accepted"

\* C17: every AcceptAppointment, RejectAppointment or SetStatus that answers
\* success has delivered exactly one event, by publish or by direct emit,
\* whatever the availability of the broadcast channel.
Succeeded(h) ==
  /\ h.pc = "done"
  /\ \/ h.op \in {"accept", "reject"} /\ h.resp.kind = "redirect"
     \/ h.op = "setStatus" /\ h.resp.kind = "json" /\ h.resp.code = 200
C17_ExactlyOneEvent ==
  \A p \in Procs :
    Succeeded(req[p]) =>
      /\ Cardinality(Delivered(req[p])) = 1
      /\ req[p].op \in {"accept", "reject"} =>
           /\ req[p].eventData # <<>>
           /\ req[p].eventData[1].appointmentId = ParseInt(req[p].id)
           /\ req[p].eventData[1].status = Target(req[p].op)

\* C18: if the joined SELECT or the UPDATE of accept/reject fails with a store
\* error, the answer is a server error and no later step runs: no cache key is
\* deleted, no event is published or emitted; when the SELECT is the one that
\* fails the appointment's status is unchanged too.
C18_StoreFailureStops ==
  [][\A p \in Writers :
       (req[p].op \in {"accept", "reject"} /\ req'[p] # req[p]
          /\ "dbErr" \in Range(req'[p].fx)) =>
         /\ req'[p].pc = "done" /\ req'[p].resp = Error500
         /\ Range(req'[p].fx) \cap {"del", "delErr", "pub", "pubErr", "emit"} = {}
         /\ redis' = redis
         /\ req[p].pc = "select" => status' = status /\ "upd" \notin Range(req'[p].fx)]_vars

C18_Witness ==
  \E p \in Writers :
    /\ req[p].op = "accept" /\ req[p].id = "1" /\ req[p].pc = "done"
    /\ req[p].fx = <<"dbErr">> /\ req[p].resp = Error500
    /\ status[1] = "pending"
    /\ CacheKeyOf(1) \in DOMAIN redis

\* C19: the UPDATE does not look at the prior status: whatever the
\* interleaving of accept and reject requests on an appointment, settled or
\* not, its durable status is the target of the UPDATE that executed last,
\* and the event of each request carries that request's own target.
C19_LastUpdateWins ==
  /\ \A a \in ApptIds :
       race.status[a] = IF race.last[a] = Null THEN "pending" ELSE race.last[a]
  /\ \A i \in Racers :
       Delivered(race.h[i]) # {} =>
         /\ race.h[i].eventData # <<>>
         /\ race.h[i].eventData[1].status = Target(race.h[i].op)

C19_Witness ==
  /\ \A i \in Racers : race.h[i].pc = "done" /\ race.h[i].id = "1"
                          /\ race.h[i].resp = Redirect /\ Delivered(race.h[i]) # {}
  /\ race.h["w1"].op = "accept" /\ race.h["w2"].op = "reject"
  /\ race.h["w1"].fx[Len(race.h["w1"].fx)] \in Events
  /\ race.last[1] = "rejected" /\ race.status[1] = "rejected"
  /\ race.h["w1"].eventData[1].status = "accepted"

====
